---- MODULE Spec2Model ----
(***************************************************************************)
(* Model of octobot/automation/automation.py: the Automation tentacle.     *)
(* State: the enable flag, the persisted and the in-memory configuration,  *)
(* automation_details (the Rules), automation_tasks (the tracked loops)    *)
(* and every asyncio task created by start().                              *)
(***************************************************************************)
EXTENDS Integers, Sequences, FiniteSets, TLC

VARIABLES
    ENABLE_AUTOMATIONS,   \* constants.ENABLE_AUTOMATIONS
    stored_config,        \* what tentacles_manager_api.get_tentacle_config returns
    automations_config,   \* self.automations_config
    automation_details,   \* self.automation_details : sequence of Rules
    automation_tasks,     \* self.automation_tasks : sequence of task ids
    tasks,                \* every task ever created, indexed by task id
    next_oid,             \* identity of the next AutomationDetails object
    in_flight,            \* restart() calls suspended in load_and_save_user_inputs
    call                  \* the last lifecycle call: its name, outcome and pre-state

vars == <<ENABLE_AUTOMATIONS, stored_config, automations_config, automation_details,
          automation_tasks, tasks, next_oid, in_flight, call>>

(***************************************************************************)
(* Bounds                                                                  *)
(***************************************************************************)
MaxEntries == 2      \* rule entries in a configuration of the binding specification
MaxObjects == 2      \* AutomationDetails objects built in one behaviour
MaxTasks == 3        \* asyncio tasks created in one behaviour
MaxInFlight == 2     \* restart() calls suspended at the same time

(***************************************************************************)
(* Names                                                                   *)
(***************************************************************************)
TRIGGER_EVENT == "trigger_event"
CONDITIONS == "conditions"
ACTIONS_KEY == "actions"

\* get_all_steps(): the name -> class registries (keys only, classes are opaque)
all_events == {"PeriodicCheck"}
all_conditions == {"NoCondition", "OtherCondition"}
all_actions == {"SendNotification", "OtherAction"}

\* a rule-table key is a string: a sequence of characters
Keys == {<<"1">>, <<"2">>, <<"3">>, <<"x">>}

DigitValue(c) ==
    CASE c = "0" -> 0 [] c = "1" -> 1 [] c = "2" -> 2 [] c = "3" -> 3 [] c = "4" -> 4
      [] c = "5" -> 5 [] c = "6" -> 6 [] c = "7" -> 7 [] c = "8" -> 8 [] c = "9" -> 9
      [] OTHER -> -1

\* int(automation_id): decimal value of the key, -1 when int() raises ValueError
RECURSIVE IntOfPrefix(_, _)
IntOfPrefix(key, n) ==
    IF n = 0 THEN 0
    ELSE IF DigitValue(key[n]) < 0 \/ IntOfPrefix(key, n - 1) < 0 THEN -1
    ELSE 10 * IntOfPrefix(key, n - 1) + DigitValue(key[n])

int(key) == IF Len(key) = 0 THEN -1 ELSE IntOfPrefix(key, Len(key))

(***************************************************************************)
(* Configuration: automations_count and the rule table in key order.  An   *)
(* entry lists the fields it has in `has`; a field it lacks is ignored.    *)
(***************************************************************************)
Entry(key, has, event, conditions, actions) ==
    [key |-> key, has |-> has, trigger_event |-> event,
     conditions |-> conditions, actions |-> actions]

AllFields == {TRIGGER_EVENT, CONDITIONS, ACTIONS_KEY}

\* the shapes a rule entry takes, the key left open
Shapes == {
    [has |-> AllFields, trigger_event |-> "PeriodicCheck",
     conditions |-> <<"NoCondition", "OtherCondition">>, actions |-> <<"SendNotification">>],
    [has |-> AllFields, trigger_event |-> "PeriodicCheck",
     conditions |-> <<>>, actions |-> <<"OtherAction", "SendNotification">>],
    [has |-> AllFields, trigger_event |-> "PeriodicCheck",
     conditions |-> <<"NoCondition", "Missing", "OtherCondition">>, actions |-> <<"SendNotification">>],
    [has |-> AllFields, trigger_event |-> "PeriodicCheck",
     conditions |-> <<"NoCondition">>, actions |-> <<"Missing", "SendNotification">>],
    [has |-> AllFields, trigger_event |-> "Missing",
     conditions |-> <<"NoCondition">>, actions |-> <<"SendNotification">>],
    [has |-> {CONDITIONS, ACTIONS_KEY}, trigger_event |-> "",
     conditions |-> <<"NoCondition">>, actions |-> <<"SendNotification">>],
    [has |-> {TRIGGER_EVENT, ACTIONS_KEY}, trigger_event |-> "PeriodicCheck",
     conditions |-> <<>>, actions |-> <<"SendNotification">>],
    [has |-> {TRIGGER_EVENT, CONDITIONS}, trigger_event |-> "PeriodicCheck",
     conditions |-> <<"NoCondition">>, actions |-> <<>>] }

Entries == { Entry(k, s.has, s.trigger_event, s.conditions, s.actions) : k \in Keys, s \in Shapes }

\* rule tables: sequences of entries with distinct keys (a dict), any key order
RECURSIVE Tables(_)
Tables(n) ==
    IF n = 0 THEN { <<>> }
    ELSE Tables(n - 1) \cup
         { Append(t, e) : t \in { u \in Tables(n - 1) : Len(u) = n - 1 },
                          e \in Entries }

DistinctKeys(t) == \A i, j \in 1..Len(t) : i # j => t[i].key # t[j].key

Config(count, table) == [automations_count |-> count, automations |-> table]

BindConfigs ==
    { Config(n, t) : n \in 0..3, t \in { u \in Tables(MaxEntries) : DistinctKeys(u) } }

\* automations_config=None, the constructor's default
NoneConfig == Config(-1, <<>>)

(***************************************************************************)
(* The binder                                                              *)
(***************************************************************************)
\* AutomationDetails(event, conditions, actions); oid is the object's identity
\* and key the rule-table key it was built from
AutomationDetails(oid, key, event, conditions, actions) ==
    [oid |-> oid, key |-> key, trigger_event |-> event,
     conditions |-> conditions, actions |-> actions]

\* _is_valid_automation_config
is_valid_automation_config(automation_config) ==
    TRIGGER_EVENT \in automation_config.has

\* _create_step: classes[step_name]() raises KeyError for a name not in classes
create_step_raises(step_name, classes) == step_name \notin classes

\* the two list comprehensions: one unknown name raises out of the whole list
create_steps_raises(names, classes) ==
    \E i \in 1..Len(names) : create_step_raises(names[i], classes)

\* the body of the for loop for one entry: "return", "continue", a raised
\* error, or "append"
entry_outcome(automation_config, automations_count) ==
    IF int(automation_config.key) < 0 THEN "ValueError"
    ELSE IF int(automation_config.key) > automations_count THEN "return"
    ELSE IF ~ is_valid_automation_config(automation_config) THEN "continue"
    ELSE IF create_step_raises(automation_config.trigger_event, all_events) THEN "KeyError"
    ELSE IF CONDITIONS \notin automation_config.has THEN "KeyError"
    ELSE IF create_steps_raises(automation_config.conditions, all_conditions) THEN "KeyError"
    ELSE IF ACTIONS_KEY \notin automation_config.has THEN "KeyError"
    ELSE IF create_steps_raises(automation_config.actions, all_actions) THEN "KeyError"
    ELSE "append"

\* _create_automation_details from entry i on: the details list it leaves,
\* the error it raised ("none" when it returned) and the next object identity
RECURSIVE create_from(_, _, _, _)
create_from(config, i, details, oid) ==
    IF i > Len(config.automations)
    THEN [details |-> details, raised |-> "none", oid |-> oid]
    ELSE LET e == config.automations[i]
             o == entry_outcome(e, config.automations_count)
         IN  CASE o = "return" -> [details |-> details, raised |-> "none", oid |-> oid]
               [] o = "continue" -> create_from(config, i + 1, details, oid)
               [] o = "append" ->
                    create_from(config, i + 1,
                        Append(details, AutomationDetails(oid, e.key, e.trigger_event,
                                                          e.conditions, e.actions)),
                        oid + 1)
               [] OTHER -> [details |-> details, raised |-> o, oid |-> oid]

create_automation_details(config, details, oid) ==
    IF config = NoneConfig
    THEN [details |-> details, raised |-> "AttributeError", oid |-> oid]
    ELSE create_from(config, 1, details, oid)

(***************************************************************************)
(* Tasks: one asyncio task per _run_automation(automation_detail) call.    *)
(* pc is the await the coroutine is suspended at: "created" (not yet run), *)
(* "waiting" (in trigger_event.next_event()), "condition" (in the          *)
(* evaluate() of conditions[idx]), "action" (in the process() of           *)
(* actions[idx]) or "done".  log lists what the current firing did.        *)
(***************************************************************************)
Task(rule) ==
    [rule |-> rule, pc |-> "created", idx |-> 0, must_cancel |-> FALSE,
     ending |-> "none", log |-> <<>>]

Event(step, index, outcome) == [step |-> step, index |-> index, outcome |-> outcome]

\* task.done()
done(task) == task.pc = "done"

\* task.cancel(): a request, thrown into the coroutine when it next resumes
cancel(task) == IF done(task) THEN task ELSE [task EXCEPT !.must_cancel = TRUE]

\* the coroutine ends: normally ("ended"), by an exception ("error") or by
\* CancelledError ("cancelled"); the log is kept for an exception only
finish(task, how) ==
    [task EXCEPT !.pc = "done", !.idx = 0, !.ending = how,
                 !.log = IF how = "error" THEN @ ELSE <<>>]

\* _process_actions reaches actions[idx], or returns to the async for
enter_actions(task, idx) ==
    IF idx > Len(task.rule.actions)
    THEN [task EXCEPT !.pc = "waiting", !.idx = 0]
    ELSE [task EXCEPT !.pc = "action", !.idx = idx]

\* _check_conditions reaches conditions[idx], or returns True
enter_conditions(task, idx) ==
    IF idx > Len(task.rule.conditions)
    THEN enter_actions(task, 1)
    ELSE [task EXCEPT !.pc = "condition", !.idx = idx]

\* variant: an event is taken while the body of the async for is running
awaiting_event_any(task) == task.pc \in {"waiting", "condition", "action"}

\* the coroutine is suspended in the async for, waiting for next_event()
awaiting_event(task) == task.pc = "waiting"

\* the trigger yields an event: the body of the async for starts
fire(task) == enter_conditions([task EXCEPT !.log = <<>>], 1)

\* variant: a False condition does not return, the next one is evaluated
check_conditions_no_return(task, outcome) ==
    LET logged == [task EXCEPT !.log = Append(@, Event("condition", task.idx, outcome))]
    IN  CASE outcome \in {"true", "false"} -> enter_conditions(logged, task.idx + 1)
          [] OTHER -> finish(logged, "error")

\* variant: a raising condition is caught and counts as False
check_conditions_isolated(task, outcome) ==
    LET logged == [task EXCEPT !.log = Append(@, Event("condition", task.idx, outcome))]
    IN  CASE outcome = "true" -> enter_conditions(logged, task.idx + 1)
          [] OTHER -> [logged EXCEPT !.pc = "waiting", !.idx = 0]

\* conditions[idx].evaluate() returns True or False, or raises
check_conditions_step(task, outcome) ==
    LET logged == [task EXCEPT !.log = Append(@, Event("condition", task.idx, outcome))]
    IN  CASE outcome = "true" -> enter_conditions(logged, task.idx + 1)
          [] outcome = "false" -> [logged EXCEPT !.pc = "waiting", !.idx = 0]
          [] OTHER -> finish(logged, "error")

\* variant: no try/except around process()
process_actions_unguarded(task, outcome) ==
    LET logged == [task EXCEPT !.log = Append(@, Event("action", task.idx, outcome))]
    IN  IF outcome = "raise" THEN finish(logged, "error")
        ELSE enter_actions(logged, task.idx + 1)

\* actions[idx].process() returns or raises an Exception, which is logged
process_actions_step(task, outcome) ==
    enter_actions([task EXCEPT !.log = Append(@, Event("action", task.idx, outcome))],
                  task.idx + 1)

\* variant: a task cancelled inside process() first completes that action
process_cancel_after_action(task) ==
    IF task.pc = "action"
    THEN process_actions_step(task, "ok")
    ELSE [finish(task, "cancelled") EXCEPT !.must_cancel = FALSE]

\* variant: the CancelledError is swallowed and the coroutine goes on
process_cancel_swallowed(task) == [task EXCEPT !.must_cancel = FALSE]

\* CancelledError is thrown at the await the coroutine is suspended at; it is
\* no Exception, so _process_actions does not catch it
process_cancel(task) == [finish(task, "cancelled") EXCEPT !.must_cancel = FALSE]

(***************************************************************************)
(* start / stop / restart on the task table                                *)
(***************************************************************************)
\* stop(): cancel every tracked task that is not done
stop_tasks(ts, tracked) ==
    [i \in 1..Len(ts) |->
        IF \E k \in 1..Len(tracked) : tracked[k] = i THEN cancel(ts[i]) ELSE ts[i]]

\* variant: stop() before the flag is tested
restart_stop_first(enabled, ts, tracked) == stop_tasks(ts, tracked)

\* restart() up to the reload: DisabledError before stop() when disabled
restart_stop(enabled, ts, tracked) ==
    IF ~ enabled THEN ts ELSE stop_tasks(ts, tracked)

\* variant: the rule set is kept
init_user_inputs_keep(details) == details

\* init_user_inputs, called by load_and_save_user_inputs: the rule set is emptied
init_user_inputs(details) == <<>>

\* start(): the task list comprehension over automation_details
spawned(details) == [k \in 1..Len(details) |-> Task(details[k])]

new_task_ids(ts, details) == [k \in 1..Len(details) |-> Len(ts) + k]

(***************************************************************************)
(* The configurations of the running specification                         *)
(***************************************************************************)
\* a rule with a trigger and empty condition and action lists
TriggerOnlyRule == Entry(<<"1">>, AllFields, "PeriodicCheck", <<>>, <<>>)

UnknownTriggerRule ==
    Entry(<<"2">>, AllFields, "Missing", <<"NoCondition">>, <<"SendNotification">>)

EmptyConfig == Config(0, <<>>)

RunConfigs ==
    { EmptyConfig,
      Config(1, <<TriggerOnlyRule>>),
      Config(2, <<TriggerOnlyRule, UnknownTriggerRule>>) }

\* the configuration of the loop specification: two rules with steps
TwoConditionsRule ==
    Entry(<<"1">>, AllFields, "PeriodicCheck",
          <<"NoCondition", "OtherCondition">>, <<"SendNotification">>)

TwoActionsRule ==
    Entry(<<"2">>, AllFields, "PeriodicCheck", <<>>, <<"OtherAction", "SendNotification">>)

LoopConfig == Config(2, <<TwoConditionsRule, TwoActionsRule>>)

(***************************************************************************)
(* The last call                                                           *)
(***************************************************************************)
\* op, raised: the method and the error it raised; pending: a restart() that
\* has not resumed yet; gen: next_oid when that restart() was called; serial: no call
\* so far was made while a restart() was suspended; tick flips at every call;
\* again: the call before this one was of the same method
Call(op, raised, pending, gen, serial, tick, again) ==
    [op |-> op, raised |-> raised, pending |-> pending, gen |-> gen,
     serial |-> serial, tick |-> tick, again |-> again]

\* the record of a call made now: it overlaps when a restart() is suspended
NextCall(op, raised, pending) ==
    Call(op, raised, pending, IF pending THEN next_oid ELSE 0,
         call.serial /\ in_flight = 0, ~ call.tick, call.op = op)

(***************************************************************************)
(* Initial state: Automation.__init__                                      *)
(***************************************************************************)
Init ==
    /\ ENABLE_AUTOMATIONS \in BOOLEAN
    /\ stored_config \in RunConfigs
    /\ automations_config = stored_config
    /\ automation_details = <<>>
    /\ automation_tasks = <<>>
    /\ tasks = <<>>
    /\ next_oid = 1
    /\ in_flight = 0
    /\ call = Call("init", "none", FALSE, 1, TRUE, FALSE, FALSE)

(***************************************************************************)
(* Lifecycle operations                                                    *)
(***************************************************************************)
\* the effect of start() on the rule set and the tasks, given the binder's result
StartEffect(r) ==
    /\ r.oid <= MaxObjects + 1
    /\ automation_details' = r.details
    /\ next_oid' = r.oid
    /\ IF r.raised = "none"
       THEN /\ Len(tasks) + Len(r.details) <= MaxTasks
            /\ tasks' = tasks \o spawned(r.details)
            /\ automation_tasks' = new_task_ids(tasks, r.details)
       ELSE UNCHANGED <<tasks, automation_tasks>>

\* start()
Start ==
    LET r == create_automation_details(automations_config, automation_details, next_oid)
    IN  /\ StartEffect(r)
        /\ call' = NextCall("start", r.raised, FALSE)
        /\ UNCHANGED <<ENABLE_AUTOMATIONS, stored_config, automations_config, in_flight>>

\* stop()
Stop ==
    /\ tasks' = stop_tasks(tasks, automation_tasks)
    /\ call' = NextCall("stop", "none", FALSE)
    /\ UNCHANGED <<ENABLE_AUTOMATIONS, stored_config, automations_config,
                   automation_details, automation_tasks, next_oid, in_flight>>

\* restart() up to its suspension in load_and_save_user_inputs
Restart ==
    /\ tasks' = restart_stop(ENABLE_AUTOMATIONS, tasks, automation_tasks)
    /\ IF ~ ENABLE_AUTOMATIONS
       THEN /\ call' = NextCall("restart", "DisabledError", FALSE)
            /\ UNCHANGED <<automations_config, automation_details, in_flight>>
       ELSE /\ in_flight < MaxInFlight
            /\ automations_config' = stored_config
            /\ automation_details' = init_user_inputs(automation_details)
            /\ in_flight' = in_flight + 1
            /\ call' = NextCall("restart", "none", TRUE)
    /\ UNCHANGED <<ENABLE_AUTOMATIONS, stored_config, automation_tasks, next_oid>>

\* variant: initialize() stops the loops when automations are disabled
InitializeStops ==
    IF ENABLE_AUTOMATIONS
    THEN Restart
    ELSE /\ tasks' = stop_tasks(tasks, automation_tasks)
         /\ call' = NextCall("initialize", "none", FALSE)
         /\ UNCHANGED <<ENABLE_AUTOMATIONS, stored_config, automations_config,
                        automation_details, automation_tasks, next_oid, in_flight>>

\* initialize()
Initialize ==
    IF ENABLE_AUTOMATIONS
    THEN Restart
    ELSE /\ call' = NextCall("initialize", "none", FALSE)
         /\ UNCHANGED <<ENABLE_AUTOMATIONS, stored_config, automations_config,
                        automation_details, automation_tasks, tasks, next_oid, in_flight>>

\* restart() resumes: await self.start()
RestartFinish ==
    LET r == create_automation_details(automations_config, automation_details, next_oid)
    IN  /\ in_flight > 0
        /\ StartEffect(r)
        /\ in_flight' = in_flight - 1
        /\ call' = [call EXCEPT !.op = "restart", !.raised = r.raised, !.pending = FALSE]
        /\ UNCHANGED <<ENABLE_AUTOMATIONS, stored_config, automations_config>>

\* variant: reset_config() also empties the configuration in memory
ResetConfigInMemory ==
    /\ stored_config' = EmptyConfig
    /\ automations_config' = EmptyConfig
    /\ UNCHANGED <<ENABLE_AUTOMATIONS, automation_details,
                   automation_tasks, tasks, next_oid, in_flight, call>>

\* reset_config()
ResetConfig ==
    /\ stored_config' = EmptyConfig
    /\ UNCHANGED <<ENABLE_AUTOMATIONS, automations_config, automation_details,
                   automation_tasks, tasks, next_oid, in_flight, call>>

\* the user saves another configuration (tentacles_manager_api.update_tentacle_config)
UpdateTentacleConfig ==
    /\ \E c \in RunConfigs \ {stored_config, EmptyConfig} : stored_config' = c
    /\ UNCHANGED <<ENABLE_AUTOMATIONS, automations_config, automation_details,
                   automation_tasks, tasks, next_oid, in_flight, call>>

(***************************************************************************)
(* The loops: _run_automation                                              *)
(***************************************************************************)
LoopFrame ==
    UNCHANGED <<ENABLE_AUTOMATIONS, stored_config, automations_config, automation_details,
                automation_tasks, next_oid, in_flight, call>>

Runnable(i) == ~ done(tasks[i]) /\ ~ tasks[i].must_cancel

\* the task is scheduled for the first time and suspends in next_event()
LoopStart ==
    \E i \in 1..Len(tasks) :
        /\ Runnable(i) /\ tasks[i].pc = "created"
        /\ tasks' = [tasks EXCEPT ![i].pc = "waiting"]
        /\ LoopFrame

\* the trigger fires
TriggerFires ==
    \E i \in 1..Len(tasks) :
        /\ Runnable(i) /\ awaiting_event(tasks[i])
        /\ tasks' = [tasks EXCEPT ![i] = fire(@)]
        /\ LoopFrame

\* the trigger's event sequence ends: the async for is exhausted
TriggerEnds ==
    \E i \in 1..Len(tasks) :
        /\ Runnable(i) /\ tasks[i].pc = "waiting"
        /\ tasks' = [tasks EXCEPT ![i] = finish(@, "ended")]
        /\ LoopFrame

\* variant: an exception of one loop cancels the other loops (task group)
CheckConditionGroup ==
    \E i \in 1..Len(tasks), outcome \in {"true", "false", "raise"} :
        /\ Runnable(i) /\ tasks[i].pc = "condition"
        /\ tasks' = [j \in 1..Len(tasks) |->
                        IF j = i THEN check_conditions_step(tasks[i], outcome)
                        ELSE IF outcome = "raise" THEN cancel(tasks[j])
                        ELSE tasks[j]]
        /\ LoopFrame

\* _check_conditions: one evaluate() completes
CheckCondition ==
    \E i \in 1..Len(tasks), outcome \in {"true", "false", "raise"} :
        /\ Runnable(i) /\ tasks[i].pc = "condition"
        /\ tasks' = [tasks EXCEPT ![i] = check_conditions_step(@, outcome)]
        /\ LoopFrame

\* _process_actions: one process() completes
ProcessAction ==
    \E i \in 1..Len(tasks), outcome \in {"ok", "raise"} :
        /\ Runnable(i) /\ tasks[i].pc = "action"
        /\ tasks' = [tasks EXCEPT ![i] = process_actions_step(@, outcome)]
        /\ LoopFrame

\* a cancelled task resumes: CancelledError at its await
ProcessCancel ==
    \E i \in 1..Len(tasks) :
        /\ ~ done(tasks[i]) /\ tasks[i].must_cancel
        /\ tasks' = [tasks EXCEPT ![i] = process_cancel(@)]
        /\ LoopFrame

Next ==
    \/ Start
    \/ Stop
    \/ Restart
    \/ Initialize
    \/ RestartFinish
    \/ ResetConfig
    \/ UpdateTentacleConfig
    \/ LoopStart
    \/ TriggerFires
    \/ TriggerEnds
    \/ ProcessCancel

Spec == Init /\ [][Next]_vars

(***************************************************************************)
(* restart() as the only lifecycle call, made again while one is suspended *)
(***************************************************************************)
InitRestart ==
    /\ ENABLE_AUTOMATIONS = TRUE
    /\ stored_config \in RunConfigs
    /\ automations_config = stored_config
    /\ automation_details = <<>>
    /\ automation_tasks = <<>>
    /\ tasks = <<>>
    /\ next_oid = 1
    /\ in_flight = 0
    /\ call = Call("init", "none", FALSE, 1, TRUE, FALSE, FALSE)

NextRestart ==
    \/ Restart
    \/ RestartFinish
    \/ UpdateTentacleConfig
    \/ LoopStart
    \/ TriggerFires
    \/ TriggerEnds
    \/ ProcessCancel

SpecRestart == InitRestart /\ [][NextRestart]_vars

(***************************************************************************)
(* The loops of one start() on a configuration whose rules have conditions *)
(* and actions                                                             *)
(***************************************************************************)
InitLoop ==
    /\ ENABLE_AUTOMATIONS = TRUE
    /\ stored_config = LoopConfig
    /\ automations_config = LoopConfig
    /\ automation_details = <<>>
    /\ automation_tasks = <<>>
    /\ tasks = <<>>
    /\ next_oid = 1
    /\ in_flight = 0
    /\ call = Call("init", "none", FALSE, 1, TRUE, FALSE, FALSE)

NextLoop ==
    \/ Start
    \/ Stop
    \/ LoopStart
    \/ TriggerFires
    \/ TriggerEnds
    \/ CheckCondition
    \/ ProcessAction
    \/ ProcessCancel

SpecLoop == InitLoop /\ [][NextLoop]_vars

(***************************************************************************)
(* The binder alone: _create_automation_details on any configuration       *)
(***************************************************************************)
InitBind ==
    /\ ENABLE_AUTOMATIONS = TRUE
    /\ stored_config = EmptyConfig
    /\ automations_config \in BindConfigs \cup {NoneConfig}
    /\ automation_details = <<>>
    /\ automation_tasks = <<>>
    /\ tasks = <<>>
    /\ next_oid = 1
    /\ in_flight = 0
    /\ call = Call("init", "none", FALSE, 1, TRUE, FALSE, FALSE)

\* one call of _create_automation_details()
CreateAutomationDetails ==
    LET r == create_automation_details(automations_config, automation_details, next_oid)
    IN  /\ r.oid <= MaxObjects + 1
        /\ automation_details' = r.details
        /\ next_oid' = r.oid
        /\ call' = [NextCall("create_automation_details", r.raised, FALSE)
                        EXCEPT !.gen = next_oid]
        /\ UNCHANGED <<ENABLE_AUTOMATIONS, stored_config, automations_config,
                       automation_tasks, tasks, in_flight>>

NextBind == CreateAutomationDetails

SpecBind == InitBind /\ [][NextBind]_vars

(***************************************************************************)
(* Properties of the binder (SpecBind)                                     *)
(***************************************************************************)
Table == automations_config.automations

Bound == call.op = "create_automation_details"

\* the entry names a trigger of the registry
ResolvableTrigger(e) == TRIGGER_EVENT \in e.has /\ e.trigger_event \in all_events

\* the entry has the three fields and every name of it is in its registry
FullyResolvable(e) ==
    /\ ResolvableTrigger(e)
    /\ CONDITIONS \in e.has /\ ACTIONS_KEY \in e.has
    /\ \A k \in 1..Len(e.conditions) : e.conditions[k] \in all_conditions
    /\ \A k \in 1..Len(e.actions) : e.actions[k] \in all_actions

\* the names of a list that are in the registry, in the list's order
Known(names, classes) == SelectSeq(names, LAMBDA n : n \in classes)

\* the key is a decimal number
Numeric(e) == int(e.key) >= 0

\* the keys are numbers in ascending id order and none exceeds the declared count
AscendingWithinCount ==
    /\ \A i \in 1..Len(Table) : Numeric(Table[i])
    /\ \A i \in 1..Len(Table) : int(Table[i].key) <= automations_config.automations_count
    /\ \A i, j \in 1..Len(Table) : i < j => int(Table[i].key) < int(Table[j].key)

HasRuleFor(key) == \E k \in 1..Len(automation_details) : automation_details[k].key = key

\* C1: a rule entry whose trigger name is absent or is not in the trigger
\* registry yields no Rule for its id, no exception escapes and every later
\* entry is still bound.  Stated for tables in ascending order within the
\* declared count whose other entries resolve completely.
C1_UnresolvableTriggerSkipped ==
    (Bound /\ automations_config # NoneConfig /\ AscendingWithinCount) =>
        \A i \in 1..Len(Table) :
            ( /\ ~ ResolvableTrigger(Table[i])
              /\ \A j \in 1..Len(Table) : j # i => FullyResolvable(Table[j]) )
            => /\ call.raised = "none"
               /\ ~ HasRuleFor(Table[i].key)
               /\ \A j \in 1..Len(Table) : j > i => HasRuleFor(Table[j].key)

\* C2: with a resolvable trigger, a condition or action name that is not in
\* its registry is dropped on its own and the Rule is built with the trigger
\* and the remaining conditions and actions in declared order.  Stated for
\* tables in ascending order within the declared count whose triggers all
\* resolve and whose entries have both lists.
C2_UnknownStepDropped ==
    ( /\ Bound /\ automations_config # NoneConfig /\ AscendingWithinCount
      /\ \A i \in 1..Len(Table) : ResolvableTrigger(Table[i]) /\ Table[i].has = AllFields )
    => /\ call.raised = "none"
       /\ \A i \in 1..Len(Table) :
            \E k \in 1..Len(automation_details) :
                /\ automation_details[k].key = Table[i].key
                /\ automation_details[k].trigger_event = Table[i].trigger_event
                /\ automation_details[k].conditions = Known(Table[i].conditions, all_conditions)
                /\ automation_details[k].actions = Known(Table[i].actions, all_actions)

\* the entries a pass has to bind: resolvable trigger, id within the count
ToBind == { i \in 1..Len(Table) :
              /\ ResolvableTrigger(Table[i])
              /\ int(Table[i].key) <= automations_config.automations_count }

\* C3: one binding pass from an empty rule set yields exactly one Rule per
\* entry with a resolvable trigger and an id within the declared count, in
\* ascending id order, and none for a larger id, whatever the key order.
\* Stated for tables whose entries resolve completely.
C3_OneRulePerEntryAscending ==
    ( /\ Bound /\ call.gen = 1 /\ automations_config # NoneConfig
      /\ \A i \in 1..Len(Table) : FullyResolvable(Table[i]) /\ Numeric(Table[i]) )
    => /\ Len(automation_details) = Cardinality(ToBind)
       /\ \A i \in ToBind : HasRuleFor(Table[i].key)
       /\ \A k \in 1..Len(automation_details) :
            int(automation_details[k].key) <= automations_config.automations_count
       /\ \A k, m \in 1..Len(automation_details) :
            k < m => int(automation_details[k].key) < int(automation_details[m].key)

\* the entry has a resolvable trigger but lacks the conditions or the actions
Partial(e) == ResolvableTrigger(e) /\ e.has # AllFields

\* C15: a rule entry that has a trigger but lacks the conditions or the
\* actions list, or whose key is not a number, raises nothing out of the
\* binding pass and every other valid entry is still bound.  Stated for a
\* first pass over a table whose numeric keys ascend within the declared
\* count and whose other entries resolve completely.
C15_BadEntryTolerated ==
    ( /\ Bound /\ call.gen = 1 /\ automations_config # NoneConfig
      /\ \A i \in 1..Len(Table) : int(Table[i].key) <= automations_config.automations_count
      /\ \A i, j \in 1..Len(Table) :
            (i < j /\ Numeric(Table[i]) /\ Numeric(Table[j]))
            => int(Table[i].key) < int(Table[j].key) )
    => \A i \in 1..Len(Table) :
          ( /\ Partial(Table[i]) \/ ~ Numeric(Table[i])
            /\ \A j \in 1..Len(Table) :
                  j # i => FullyResolvable(Table[j]) /\ Numeric(Table[j]) )
          => /\ call.raised = "none"
             /\ \A j \in 1..Len(Table) : j # i => HasRuleFor(Table[j].key)

(***************************************************************************)
(* Properties of the lifecycle (Spec)                                      *)
(***************************************************************************)
TaskIds == 1..Len(tasks)

Tracked(i) == \E k \in 1..Len(automation_tasks) : automation_tasks[k] = i

\* a loop that is neither finished nor cancelled
Live(i) == ~ done(tasks[i]) /\ ~ tasks[i].must_cancel

\* start() or restart() returned normally and no call overlapped a restart()
Running ==
    /\ call.op \in {"start", "restart"}
    /\ ~ call.pending
    /\ call.raised = "none"
    /\ call.serial

InRuleSet(oid) == \E k \in 1..Len(automation_details) : automation_details[k].oid = oid

\* C4: while running after any sequence of start(), stop() and restart()
\* calls made one at a time, no Rule has two live loops, no live loop runs a
\* Rule outside the rule set and no Rule is twice in automation_details.
C4_OneLoopPerRule ==
    Running =>
        /\ \A i, j \in TaskIds :
            (Live(i) /\ Live(j) /\ tasks[i].rule.oid = tasks[j].rule.oid) => i = j
        /\ \A i \in TaskIds : Live(i) => InRuleSet(tasks[i].rule.oid)
        /\ \A k, m \in 1..Len(automation_details) :
            automation_details[k].oid = automation_details[m].oid => k = m

\* a step that is a call of the method op
IsCall(op) == call'.tick # call.tick /\ call'.op = op

\* C8: after restart() with automations enabled (in particular after a
\* stop()), the rule set is what one binding pass builds from the reloaded
\* configuration, none of its Rules is an object that existed before the
\* restart, and a loop whose cancellation has been processed never moves again.
C8_RebuiltInv ==
    (call.op = "restart" /\ ~ call.pending /\ call.serial /\ call.raised # "DisabledError")
    => /\ automation_details =
            create_automation_details(automations_config, <<>>, call.gen).details
       /\ \A k \in 1..Len(automation_details) : automation_details[k].oid >= call.gen
       /\ \A i \in TaskIds :
            (Tracked(i) /\ call.raised = "none") => tasks[i].rule.oid >= call.gen

C8_ReloadStep ==
    (IsCall("restart") /\ ENABLE_AUTOMATIONS) => automations_config' = stored_config

C8_CancelledStays ==
    \A i \in TaskIds : tasks[i].ending = "cancelled" => tasks'[i] = tasks[i]

C8_RestartRebuilds ==
    [] C8_RebuiltInv /\ [][C8_ReloadStep /\ C8_CancelledStays]_vars

\* C8 witness: a restart has rebuilt a rule while a loop of the generation
\* before it has processed its cancellation
C8_Witness ==
    /\ call.op = "restart" /\ ~ call.pending /\ call.serial /\ call.raised = "none"
    /\ Len(automation_details) > 0
    /\ \E i \in TaskIds : tasks[i].rule.oid < call.gen /\ tasks[i].ending = "cancelled"
    /\ \E i \in TaskIds : Tracked(i) /\ Live(i)

\* C9: restart() with the enable flag false raises DisabledError before
\* stop(): no task is cancelled and automation_tasks, automation_details and
\* automations_config stay as they were.
C9_DisabledRestartTouchesNothing ==
    [][ (IsCall("restart") /\ ~ ENABLE_AUTOMATIONS)
        => /\ call'.raised = "DisabledError"
           /\ UNCHANGED <<tasks, automation_tasks, automation_details, automations_config>>
      ]_vars

\* C9 witness: restart() has raised DisabledError while a tracked loop is live
C9_Witness ==
    /\ call.op = "restart" /\ call.raised = "DisabledError"
    /\ \E i \in TaskIds : Tracked(i) /\ Live(i)

\* C10: a stop() right after a stop() raises nothing and changes nothing:
\* every tracked loop is already finished or has its cancellation issued.
C10_StopTwice ==
    [][ (call.op = "stop" /\ IsCall("stop"))
        => /\ call'.raised = "none"
           /\ UNCHANGED <<tasks, automation_tasks, automation_details, automations_config>>
           /\ \A i \in TaskIds : Tracked(i) => (done(tasks'[i]) \/ tasks'[i].must_cancel)
      ]_vars

\* C10 witness: the second of two stop() calls in a row has returned, with a
\* tracked loop cancelled but not yet finished and nothing live
C10_Witness ==
    /\ call.op = "stop" /\ call.again
    /\ \E i \in TaskIds : Tracked(i) /\ tasks[i].must_cancel /\ ~ done(tasks[i])
    /\ \A i \in TaskIds : Tracked(i) => ~ Live(i)

(***************************************************************************)
(* Properties of the loops (SpecLoop)                                      *)
(***************************************************************************)
Last(log) == log[Len(log)]

IsCondition(ev) == ev.step = "condition"

IsAction(ev) == ev.step = "action"

ActionsOf(log) == SelectSeq(log, IsAction)

\* C5: in a firing the conditions are evaluated in declared order, and after
\* a condition that is false nothing more of that firing is evaluated or run.
C5_ShortCircuit ==
    \A i \in TaskIds :
        LET log == tasks[i].log
        IN  /\ \A k \in 1..Len(log) :
                 /\ IsCondition(log[k]) => log[k].index = k
                 /\ (IsCondition(log[k]) /\ log[k].outcome = "false") => k = Len(log)
                 /\ IsAction(log[k]) =>
                      \A m \in 1..Len(tasks[i].rule.conditions) :
                          m < k /\ IsCondition(log[m]) /\ log[m].outcome = "true"
            /\ (Len(log) > 0 /\ IsCondition(Last(log)) /\ Last(log).outcome = "false")
                 => tasks[i].pc \in {"waiting", "done"}

\* C5 witness: the first of two conditions was false and the loop waits for
\* the next firing
C5_Witness ==
    \E i \in TaskIds :
        /\ Len(tasks[i].rule.conditions) = 2
        /\ tasks[i].log = <<Event("condition", 1, "false")>>
        /\ tasks[i].pc = "waiting"

\* C6: in a firing whose conditions all pass every action is attempted once,
\* in declared order, whatever the earlier actions raised; an action error
\* does not end the loop, which returns to wait for the next firing.
C6_AllActionsAttempted ==
    \A i \in TaskIds :
        LET log == tasks[i].log
            acts == ActionsOf(log)
        IN  /\ \A k \in 1..Len(acts) : acts[k].index = k
            /\ (tasks[i].pc = "waiting" /\ Len(acts) > 0)
                 => Len(acts) = Len(tasks[i].rule.actions)
            /\ (tasks[i].pc = "action") => tasks[i].idx = Len(acts) + 1
            /\ (Len(log) > 0 /\ IsAction(Last(log)))
                 => /\ tasks[i].ending # "error"
                    /\ tasks[i].pc = IF Len(acts) = Len(tasks[i].rule.actions)
                                     THEN "waiting" ELSE "action"

\* C6 witness: with no condition, the first action raised, the second was run
\* and the loop waits for the next firing
C6_Witness ==
    \E i \in TaskIds :
        /\ tasks[i].rule.conditions = <<>>
        /\ tasks[i].log = <<Event("action", 1, "raise"), Event("action", 2, "ok")>>
        /\ tasks[i].pc = "waiting"

\* C7 as claimed: a condition that raises does not end the Rule's loop
C7_LoopSurvivesConditionError ==
    \A i \in TaskIds :
        (Len(tasks[i].log) > 0 /\ IsCondition(Last(tasks[i].log))
            /\ Last(tasks[i].log).outcome = "raise")
        => ~ done(tasks[i])

\* C7 amended: a condition that raises aborts the firing (no action of it is
\* run) and ends the Rule's loop: the task is done, ended by that exception,
\* and only a raising condition ends a task by an exception.
C7_ConditionErrorEndsLoop ==
    \A i \in TaskIds :
        LET log == tasks[i].log
        IN  /\ \A k \in 1..Len(log) :
                 (IsCondition(log[k]) /\ log[k].outcome = "raise")
                 => /\ k = Len(log)
                    /\ done(tasks[i]) /\ tasks[i].ending = "error"
            /\ tasks[i].ending = "error"
                 => /\ Len(log) > 0 /\ IsCondition(Last(log)) /\ Last(log).outcome = "raise"
                    /\ ActionsOf(log) = <<>>

\* C7 witness: the second condition raised and the task is done
C7_Witness ==
    \E i \in TaskIds :
        /\ tasks[i].log = <<Event("condition", 1, "true"), Event("condition", 2, "raise")>>
        /\ done(tasks[i]) /\ tasks[i].ending = "error"
        /\ \E j \in TaskIds : j # i /\ Live(j)

(***************************************************************************)
(* Further properties of the lifecycle (Spec, SpecRestart)                 *)
(***************************************************************************)
\* the entry names a trigger that is not in the registry
UnknownTrigger(e) == TRIGGER_EVENT \in e.has /\ e.trigger_event \notin all_events

TrackedFor(key) == { t \in TaskIds : Tracked(t) /\ tasks[t].rule.key = key }

\* C11: start() on a configuration that mixes rules with a resolvable
\* trigger and rules with an unknown trigger name completes, and afterwards
\* one loop runs per rule with a resolvable trigger and none for the others;
\* a firing that passed its conditions ran each action once.
C11_MixedStart ==
    ( /\ call.op = "start" /\ call.serial
      /\ \E i \in 1..Len(Table) : ResolvableTrigger(Table[i])
      /\ \E i \in 1..Len(Table) : UnknownTrigger(Table[i]) )
    => /\ call.raised = "none"
       /\ \A i \in 1..Len(Table) :
            Cardinality(TrackedFor(Table[i].key)) =
                IF ResolvableTrigger(Table[i]) THEN 1 ELSE 0
       /\ \A t \in TaskIds :
            (Tracked(t) /\ tasks[t].pc = "waiting" /\ ActionsOf(tasks[t].log) # <<>>)
            => /\ Len(ActionsOf(tasks[t].log)) = Len(tasks[t].rule.actions)
               /\ \A k \in 1..Len(ActionsOf(tasks[t].log)) :
                    ActionsOf(tasks[t].log)[k].index = k

\* C12: restart() calls do not interleave, so when none is suspended any
\* more the rule set holds one Rule per valid configured rule and every live
\* loop is tracked in automation_tasks.
C12_RestartsSerialized ==
    (in_flight = 0 /\ call.op = "restart" /\ call.raised = "none")
    => /\ \A i \in TaskIds : Live(i) => Tracked(i)
       /\ \A k, m \in 1..Len(automation_details) :
            automation_details[k].key = automation_details[m].key => k = m
       /\ Len(automation_details) =
            Len(create_automation_details(automations_config, <<>>, 1).details)

\* C13: when stop() has returned every loop spawned by an earlier start() is
\* finished or has its cancellation issued, so that none stays live.
C13_StopCancelsEveryLoop ==
    (call.op = "stop" /\ call.serial)
    => \A i \in TaskIds : done(tasks[i]) \/ tasks[i].must_cancel

\* C17: reset_config() writes count 0 and an empty rule table to the
\* persisted configuration and nothing else: no task is cancelled, and
\* automation_tasks, automation_details and automations_config are unchanged.
C17_ResetConfigFrame ==
    [][ (stored_config' = EmptyConfig /\ stored_config # EmptyConfig)
        => UNCHANGED <<tasks, automation_tasks, automation_details,
                       automations_config, in_flight, call>>
      ]_vars

\* C17 witness: the persisted configuration has been reset while the
\* configuration in memory still has a rule and its loop is live
C17_Witness ==
    /\ stored_config = EmptyConfig
    /\ automations_config # EmptyConfig
    /\ Len(automation_details) > 0
    /\ \E i \in TaskIds : Tracked(i) /\ Live(i)

\* C18: initialize() with the enable flag false raises nothing and changes
\* no state; with the flag true its step is a step of restart().
C18_InitializeDisabledOrRestart ==
    [][ /\ IsCall("initialize")
            => /\ ~ ENABLE_AUTOMATIONS
               /\ call'.raised = "none"
               /\ UNCHANGED <<tasks, automation_tasks, automation_details,
                              automations_config, stored_config, in_flight>>
        /\ (Initialize /\ ENABLE_AUTOMATIONS) => Restart
      ]_vars

\* C18 witness: initialize() has returned with automations disabled while a
\* tracked loop is live
C18_Witness ==
    /\ call.op = "initialize" /\ call.raised = "none" /\ ~ ENABLE_AUTOMATIONS
    /\ \E i \in TaskIds : Tracked(i) /\ Live(i)

\* C20: a start() whose binding raises spawns no loop and leaves
\* automation_tasks and automation_details as they were.
C20_StartAtomicOnFailure ==
    [][ (IsCall("start") /\ call'.raised # "none")
        => UNCHANGED <<tasks, automation_tasks, automation_details>>
      ]_vars

(***************************************************************************)
(* Further properties of the loops (SpecLoop)                              *)
(***************************************************************************)
\* C14 as claimed: a loop suspended inside an action's process() is not
\* ended by cancellation there
C14_NoCancelInsideAction ==
    [][ \A i \in TaskIds :
            tasks[i].pc = "action" => tasks'[i].ending # "cancelled" ]_vars

\* C14 amended: cancellation is delivered at the await the loop is suspended
\* at, inside process() and evaluate() too: once it is issued the loop
\* completes no further condition or action, its next step ends it.
C14_CancelAtCurrentAwait ==
    [][ \A i \in TaskIds :
            (tasks[i].must_cancel /\ ~ done(tasks[i]) /\ tasks'[i] # tasks[i])
            => /\ done(tasks'[i])
               /\ tasks'[i].ending = "cancelled"
               /\ tasks'[i].rule = tasks[i].rule ]_vars

\* C14 witness: cancellation has been issued to a loop suspended in the
\* second of its two actions
C14_Witness ==
    \E i \in TaskIds :
        /\ tasks[i].must_cancel
        /\ tasks[i].pc = "action" /\ tasks[i].idx = 2
        /\ Len(tasks[i].rule.actions) = 2

\* a is b with one more event
ExtendsByOne(a, b) == Len(a) = Len(b) + 1 /\ SubSeq(a, 1, Len(b)) = b

\* C16: a loop reads its trigger's next firing only when the cycle of the
\* current one is over: while it is in a condition or an action of a firing,
\* its next step adds one event to that same firing or ends the task.
C16_OneFiringAtATime ==
    [][ \A i \in TaskIds :
            (tasks[i].pc \in {"condition", "action"} /\ tasks'[i] # tasks[i])
            => \/ done(tasks'[i])
               \/ tasks'[i] = cancel(tasks[i])
               \/ ExtendsByOne(tasks'[i].log, tasks[i].log) ]_vars

\* C16 witness: a loop is in the second condition of a firing whose first
\* condition was true
C16_Witness ==
    \E i \in TaskIds :
        /\ tasks[i].pc = "condition" /\ tasks[i].idx = 2
        /\ tasks[i].log = <<Event("condition", 1, "true")>>
        /\ ~ tasks[i].must_cancel

\* the step ends task i by itself or records a raised error of task i
EndsOrFails(i) ==
    \/ ~ done(tasks[i]) /\ done(tasks'[i]) /\ tasks'[i].ending \in {"error", "ended"}
    \/ /\ ExtendsByOne(tasks'[i].log, tasks[i].log)
       /\ Last(tasks'[i].log).outcome = "raise"

\* C19: when a loop ends because its condition raised or its trigger ended,
\* or one of its actions fails, the loops of the other Rules are as they
\* were, and so are automation_tasks and automation_details.
C19_LoopsIsolated ==
    [][ \A i \in TaskIds :
            EndsOrFails(i)
            => /\ \A j \in TaskIds : j # i => tasks'[j] = tasks[j]
               /\ UNCHANGED <<automation_tasks, automation_details>> ]_vars

\* C19 witness: one loop has ended with its trigger while the loop of
\* another Rule is running an action
C19_Witness ==
    \E i, j \in TaskIds :
        /\ i # j
        /\ tasks[i].ending = "ended"
        /\ tasks[j].pc = "action" /\ ~ tasks[j].must_cancel
        /\ tasks[i].rule.oid # tasks[j].rule.oid

====
